---- MODULE Spec2Model ----
(***************************************************************************)
(* Deamhan/ipc: the message wire format (out_message / in_message) of      *)
(* src/source/ipc.cpp, byte by byte, and the server and client sockets of  *)
(* src/source/ipc.cpp and src/unnamed/part_000, system call by system call.*)
(*                                                                         *)
(* A buffer is a sequence of bytes (0..255).  m_buffer[i] of the code is   *)
(* buf[i+1] here.  The first LenSize bytes are the header, read and        *)
(* written as one __MSG_LENGTH_TYPE__ at m_buffer.data().                 *)
(***************************************************************************)
EXTENDS Integers, Sequences, FiniteSets, TLC

(* ------------------------------------------------------------------ *)
(* Build configuration (include/ipc.hpp, not part of src/)             *)
(* ------------------------------------------------------------------ *)

\* sizeof(__MSG_LENGTH_TYPE__): the width of the header and of a blob's
\* length sub-field, in bytes.
LenSize == 2

\* message::type_tag::str and ::blob, by their position in the tag list
\* u32, i32, u64, i64, fp64, str, chr, remote_ptr, blob.
TagStr == 5
TagBlob == 8

(* ------------------------------------------------------------------ *)
(* Bounds of the model                                                 *)
(* ------------------------------------------------------------------ *)

\* capacity of the writer (get_max_size())
MaxCapacity == 6
\* longest string / blob handed to an append
MaxLen == 2
\* most fields one writer commits
MaxFields == 2

\* what a byte read past the end of the vector may hold
OOBVals == {0, 65}

\* the values a corrupted payload byte takes in transit
CorruptVals == {0, 1, 200}

\* const int max_attempts_count = 10
max_attempts_count == 10

\* sizeof(serv_addr.sun_path), scaled down from the platform's 108
SunPathSize == 2

\* longest endpoint path handed to a constructor, in bytes without the NUL
MaxPathLen == 3

\* most explicit close() calls on one server object
MaxCloses == 1

\* the backlog handed to listen
Backlog == 100

VARIABLES
    useTags,        \* __MSG_USE_TAGS__
    max_size,       \* out_message: get_max_size()
    out_m_buffer,   \* out_message::m_buffer
    out_m_ok,       \* out_message::m_ok
    out_last,       \* how the last operator<< ended
    fields,         \* the values committed so far, in order
    phase,          \* "write": the writer is being filled; "read": handed over
    delivery,       \* how the buffer reached the reader
    in_m_buffer,    \* in_message::m_buffer
    in_m_offset,    \* in_message::m_offset
    in_m_ok,        \* in_message::m_ok
    in_last,        \* how the last operator>> ended
    in_op,          \* which operator>> ran last: "str" or "blob"
    arg,            \* the std::string handed to operator>>
    blob,           \* the std::vector<uint8_t> handed to operator>>
    in_count,       \* reads that returned normally
    in_sync,        \* every read so far asked for the next field's type
    in_same,        \* every read that returned normally gave the field's value
    oob,            \* a byte at or past m_buffer.size() has been read
    copied          \* the last operator>> (blob) ran its memcpy

vars == <<useTags, max_size, out_m_buffer, out_m_ok, out_last, fields, phase,
          delivery, in_m_buffer, in_m_offset, in_m_ok, in_last, in_op, arg,
          blob, in_count, in_sync, in_same, oob, copied>>

VARIABLES
    build,          \* which source is compiled: "ipc.cpp" or "part_000"
    path_len,       \* strlen of the endpoint path every object is given
    fs,             \* who created the file at that path: Absent, Other, or a server
    srv,            \* the unix_server_socket objects
    cli,            \* the unix_client_socket object
    overran,        \* strcpy wrote past the end of serv_addr.sun_path
    cut,            \* strncpy filled sun_path without room for the NUL
    stolen          \* a server unlinked a file it had not created

sockVars == <<build, path_len, fs, srv, cli, overran, cut, stolen>>

outVars == <<out_m_buffer, out_m_ok, out_last, fields>>
inVars == <<delivery, in_m_buffer, in_m_offset, in_m_ok, in_last, in_op, arg,
            blob, in_count, in_sync, in_same, oob, copied>>

(* ------------------------------------------------------------------ *)
(* Bytes and the length type                                           *)
(* ------------------------------------------------------------------ *)

RECURSIVE Pow256(_)
Pow256(n) == IF n = 0 THEN 1 ELSE 256 * Pow256(n - 1)

\* the number of values of __MSG_LENGTH_TYPE__
LenMod == Pow256(LenSize)

\* n cast to __MSG_LENGTH_TYPE__, as its bytes in memory (little endian)
EncodeLen(n) == [i \in 1..LenSize |-> ((n % LenMod) \div Pow256(i - 1)) % 256]

\* m_buffer[i]; g is what memory holds past the end of the vector
ByteAt(buf, i, g) == IF i < Len(buf) THEN buf[i + 1] ELSE g

\* the __MSG_LENGTH_TYPE__ stored at &m_buffer[off]
RECURSIVE LoadBytes(_, _, _, _)
LoadBytes(buf, off, k, g) ==
    IF k = 0 THEN 0
    ELSE ByteAt(buf, off, g) + 256 * LoadBytes(buf, off + 1, k - 1, g)

LoadLen(buf, off, g) == LoadBytes(buf, off, LenSize, g)

\* the header at m_buffer.data() set to n
StoreLen(buf, n) ==
    [i \in 1..Len(buf) |-> IF i <= LenSize THEN EncodeLen(n)[i] ELSE buf[i]]

\* k copies of byte b
Fill(k, b) == [i \in 1..k |-> b]

\* the strings (of the letter A) and the blobs (of zero bytes) handed to
\* an append
Strings == {Fill(k, 65) : k \in 0..MaxLen}
Blobs == {Fill(k, 0) : k \in 0..MaxLen}

(* ------------------------------------------------------------------ *)
(* Helpers of include/ipc.hpp, as the specification describes them     *)
(* ------------------------------------------------------------------ *)

\* check_status<E>(m_ok, msg): throws E when the fail flag is set
CheckStatusThrows(ok) == ~ok

\* fail_status(thrower, m_ok, ...): sets the flag to false, then throws;
\* the value is the flag it leaves
FailStatus(ok) == FALSE

\* a field as the caller sees it
StrField(s) == [kind |-> "str", val |-> s]
BlobField(b) == [kind |-> "blob", val |-> b]

(* ------------------------------------------------------------------ *)
(* out_message                                                         *)
(* ------------------------------------------------------------------ *)

\* delta of operator<<(string_view): the terminating NUL, and the tag
StrDelta == IF useTags THEN 2 ELSE 1

\* delta of operator<<(pair<const uint8_t*, size_t>): the tag
BlobDelta == IF useTags THEN 1 ELSE 0

\* used: the header of the writer's buffer
Used == LoadLen(out_m_buffer, 0, 0)

\* new_used = used + len + delta
NewUsed(used, len, delta) == used + len + delta

\* the bounds check of both appends: new_used > get_max_size()
Overflows(new_used) == new_used > max_size

\* the header after the commit: header += new_used, in the length type
HeaderAfter(used, new_used) == (used + new_used) % LenMod

\* the bytes a string append pushes: tag, characters, NUL
StrBytes(s) == (IF useTags THEN <<TagStr>> ELSE <<>>) \o s \o <<0>>

\* the bytes a blob append pushes: tag, blob_len, the bytes
BlobBytes(b) ==
    (IF useTags THEN <<TagBlob>> ELSE <<>>) \o EncodeLen(Len(b)) \o b

\* the common shape of both appends of ipc.cpp: f the field, len its
\* length, delta its overhead, bytes what is pushed when it fits
Push(f, len, delta, bytes) ==
    /\ phase = "write"
    /\ Len(fields) < MaxFields
    /\ UNCHANGED <<useTags, max_size, phase>>
    /\ UNCHANGED inVars
    /\ UNCHANGED sockVars
    /\ IF CheckStatusThrows(out_m_ok)
       THEN /\ out_last' = "bad_state"
            /\ UNCHANGED <<out_m_buffer, out_m_ok, fields>>
       ELSE LET used == Used
                new_used == NewUsed(used, len, delta)
            IN  IF Overflows(new_used)
                THEN /\ out_m_ok' = FailStatus(out_m_ok)
                     /\ out_last' = "overflow"
                     /\ UNCHANGED <<out_m_buffer, fields>>
                ELSE /\ out_m_buffer' =
                            StoreLen(out_m_buffer \o bytes,
                                     HeaderAfter(used, new_used))
                     /\ out_last' = "ok"
                     /\ fields' = fields \o <<f>>
                     /\ UNCHANGED out_m_ok

\* out_message::operator<<(const std::string_view&)
AppendString(s) == Push(StrField(s), Len(s), StrDelta, StrBytes(s))

\* out_message::operator<<(const std::pair<const uint8_t*, size_t>&)
AppendBlob(b) == Push(BlobField(b), Len(b), BlobDelta, BlobBytes(b))


(* ------------------------------------------------------------------ *)
(* out_message of the flag-only source (src/unnamed/part_000)          *)
(* ------------------------------------------------------------------ *)

\* both appends of part_000: no look at m_ok on entry, m_ok = false on
\* overflow, the same commit otherwise
PushP0(f, len, delta, bytes) ==
    /\ phase = "write"
    /\ Len(fields) < MaxFields
    /\ UNCHANGED <<useTags, max_size, phase>>
    /\ UNCHANGED inVars
    /\ UNCHANGED sockVars
    /\ LET used == Used
           new_used == NewUsed(used, len, delta)
       IN  IF Overflows(new_used)
           THEN /\ out_m_ok' = FALSE
                /\ out_last' = "overflow"
                /\ UNCHANGED <<out_m_buffer, fields>>
           ELSE /\ out_m_buffer' =
                       StoreLen(out_m_buffer \o bytes,
                                HeaderAfter(used, new_used))
                /\ out_last' = "ok"
                /\ fields' = fields \o <<f>>
                /\ UNCHANGED out_m_ok

\* part_000: out_message::operator<<(const std::string_view&)
AppendStringP0(s) == PushP0(StrField(s), Len(s), StrDelta, StrBytes(s))

\* part_000: out_message::operator<<(const std::pair<const uint8_t*, size_t>&)
AppendBlobP0(b) == PushP0(BlobField(b), Len(b), BlobDelta, BlobBytes(b))

(* ------------------------------------------------------------------ *)
(* The transport: the writer's buffer becomes a reader's buffer        *)
(* ------------------------------------------------------------------ *)

\* in_message wrapping the received bytes buf, the cursor on the first
\* field
Receive(buf, how) ==
    /\ phase = "write"
    /\ phase' = "read"
    /\ delivery' = how
    /\ in_m_buffer' = buf
    /\ in_m_offset' = LenSize
    /\ in_m_ok' = TRUE
    /\ in_last' = "none"
    /\ in_op' = "none"
    /\ arg' = <<>>
    /\ blob' = <<>>
    /\ in_count' = 0
    /\ in_sync' = TRUE
    /\ in_same' = TRUE
    /\ oob' = FALSE
    /\ copied' = FALSE
    /\ UNCHANGED <<useTags, max_size>>
    /\ UNCHANGED outVars
    /\ UNCHANGED sockVars

\* the whole buffer arrives
DeliverExact == Receive(out_m_buffer, "exact")

\* only the first k bytes arrive; the header is among them
DeliverTruncated(k) ==
    /\ k \in LenSize..(Len(out_m_buffer) - 1)
    /\ Receive(SubSeq(out_m_buffer, 1, k), "truncated")

\* one byte after the header is changed on the way
DeliverCorrupted(i, v) ==
    /\ i \in (LenSize + 1)..Len(out_m_buffer)
    /\ v /= out_m_buffer[i]
    /\ Receive([out_m_buffer EXCEPT ![i] = v], "corrupted")


(* ------------------------------------------------------------------ *)
(* in_message                                                          *)
(* ------------------------------------------------------------------ *)

\* size: the header of the reader's buffer
Size == LoadLen(in_m_buffer, 0, 0)

\* delta of operator>>(std::string&): the terminating NUL, and the tag
StrReadDelta == IF useTags THEN 2 ELSE 1

\* delta of operator>>(std::vector<uint8_t>&): the tag and blob_len
BlobReadDelta == (IF useTags THEN 1 ELSE 0) + LenSize

\* operator>>(std::string&): size < m_offset + delta
StrTooShort(size, off) == size < off + StrReadDelta

\* operator>>(std::vector<uint8_t>&): size < m_offset + delta
BlobTooShort(size, off) == size < off + BlobReadDelta

\* the second check with the cursor left out: size < blob_len
BlobDataTooShortNoCursor(size, data, blob_len) == size < blob_len

\* operator>>(std::vector<uint8_t>&), after blob_len is read and the
\* cursor moved to the data: size < m_offset + blob_len
BlobDataTooShort(size, data, blob_len) == size < data + blob_len

\* the flag left as it was when no terminator is found
AfterMissingNulKept(ok) == ok

\* m_ok after memchr found no terminator: m_ok = false
AfterMissingNul(ok) == FALSE

\* the tag check of the string read, pasted into the blob read
TagMismatchStr(off, expected, g) == ByteAt(in_m_buffer, off, g) /= TagStr

\* the tag check: (type_tag)m_buffer[m_offset] != expected
TagMismatch(off, expected, g) == ByteAt(in_m_buffer, off, g) /= expected

\* the cursor after the tag: ++m_offset, when tags are compiled in
AfterTag(off) == IF useTags THEN off + 1 ELSE off

\* the scan running to the end of the vector, whatever the header says
WindowToEnd(size, begin) == Len(in_m_buffer) - begin

\* the third argument of memchr: size - m_offset, the bytes from the
\* cursor to the declared length
Window(size, begin) == size - begin

\* memchr over everything the vector holds from begin on, whatever n is
MemChrWholeBuffer(begin, n, g) ==
    LET hits == {p \in begin..(Len(in_m_buffer) - 1) : in_m_buffer[p + 1] = 0}
    IN  IF hits = {} THEN -1
        ELSE CHOOSE p \in hits : \A q \in hits : p <= q

\* memchr(&m_buffer[begin], 0, n): the index of the first NUL among the n
\* bytes from begin on, or -1 for nullptr
MemChr(begin, n, g) ==
    LET hits == {p \in begin..(begin + n - 1) : ByteAt(in_m_buffer, p, g) = 0}
    IN  IF hits = {} THEN -1
        ELSE CHOOSE p \in hits : \A q \in hits : p <= q

\* the last index memchr reads: the hit, or the end of its window
MemChrLast(begin, n, g) ==
    IF MemChr(begin, n, g) = -1 THEN begin + n - 1 ELSE MemChr(begin, n, g)

\* the n bytes from m_buffer[begin] on
Bytes(begin, n, g) == [i \in 1..n |-> ByteAt(in_m_buffer, begin + i - 1, g)]

\* index hi is at or past m_buffer.size()
PastEnd(hi) == hi >= Len(in_m_buffer)

\* the field the reader is at, by the number of reads that returned
NextIs(kind) ==
    /\ in_count < Len(fields)
    /\ fields[in_count + 1].kind = kind

\* bookkeeping shared by every way a read ends
Ended(kind, how, touched) ==
    /\ in_op' = kind
    /\ in_last' = how
    /\ in_sync' = (in_sync /\ NextIs(kind))
    /\ oob' = (oob \/ touched)
    /\ UNCHANGED <<useTags, max_size, phase, delivery, in_m_buffer>>
    /\ UNCHANGED outVars
    /\ UNCHANGED sockVars

\* a read that throws: nothing is returned
Thrown(kind, how, touched) ==
    /\ Ended(kind, how, touched)
    /\ UNCHANGED <<in_count, in_same>>
    /\ copied' = FALSE

\* a read that returns val
Returned(kind, val, touched) ==
    /\ Ended(kind, "ok", touched)
    /\ in_count' = in_count + 1
    /\ in_same' = (in_same /\ NextIs(kind) /\ fields[in_count + 1].val = val)

\* in_message::operator>>(std::string&); g: memory past the vector
ReadString(g) ==
    /\ phase = "read"
    /\ IF CheckStatusThrows(in_m_ok)
       THEN /\ Thrown("str", "bad_state", FALSE)
            /\ UNCHANGED <<in_m_offset, in_m_ok, arg, blob>>
       ELSE LET size == Size
                off == in_m_offset
            IN  /\ UNCHANGED blob
                /\ IF StrTooShort(size, off)
                   THEN /\ Thrown("str", "too_short", FALSE)
                        /\ in_m_ok' = FailStatus(in_m_ok)
                        /\ arg' = <<>>
                        /\ UNCHANGED in_m_offset
                   ELSE IF useTags /\ TagMismatch(off, TagStr, g)
                   THEN /\ Thrown("str", "type_mismatch", PastEnd(off))
                        /\ in_m_ok' = FailStatus(in_m_ok)
                        /\ arg' = <<>>
                        /\ UNCHANGED in_m_offset
                   ELSE LET begin == AfterTag(off)
                            n == Window(size, begin)
                            end == MemChr(begin, n, g)
                            touched == \/ useTags /\ PastEnd(off)
                                       \/ PastEnd(MemChrLast(begin, n, g))
                        IN  IF end = -1
                            THEN /\ Thrown("str", "malformed", touched)
                                 /\ in_m_ok' = AfterMissingNul(in_m_ok)
                                 /\ arg' = <<>>
                                 /\ in_m_offset' = begin
                            ELSE /\ Returned("str", Bytes(begin, end - begin, g),
                                             touched)
                                 /\ arg' = Bytes(begin, end - begin, g)
                                 /\ in_m_offset' = begin + (end - begin) + 1
                                 /\ copied' = FALSE
                                 /\ UNCHANGED in_m_ok

\* in_message::operator>>(std::vector<uint8_t>&); g: memory past the vector
ReadBlob(g) ==
    /\ phase = "read"
    /\ UNCHANGED arg
    /\ IF CheckStatusThrows(in_m_ok)
       THEN /\ Thrown("blob", "bad_state", FALSE)
            /\ UNCHANGED <<in_m_offset, in_m_ok, blob>>
       ELSE LET size == Size
                off == in_m_offset
            IN  IF BlobTooShort(size, off)
                THEN /\ Thrown("blob", "too_short", FALSE)
                     /\ in_m_ok' = FailStatus(in_m_ok)
                     /\ UNCHANGED <<in_m_offset, blob>>
                ELSE IF useTags /\ TagMismatch(off, TagBlob, g)
                THEN /\ Thrown("blob", "type_mismatch", PastEnd(off))
                     /\ in_m_ok' = FailStatus(in_m_ok)
                     /\ UNCHANGED <<in_m_offset, blob>>
                ELSE LET at == AfterTag(off)
                         blob_len == LoadLen(in_m_buffer, at, g)
                         data == at + LenSize
                         sub == \/ useTags /\ PastEnd(off)
                                \/ PastEnd(at + LenSize - 1)
                     IN  IF BlobDataTooShort(size, data, blob_len)
                         THEN /\ Thrown("blob", "too_short", sub)
                              /\ in_m_ok' = FailStatus(in_m_ok)
                              /\ in_m_offset' = data
                              /\ UNCHANGED blob
                         ELSE IF blob_len /= 0
                         THEN /\ Returned("blob", Bytes(data, blob_len, g),
                                          sub \/ PastEnd(data + blob_len - 1))
                              /\ blob' = Bytes(data, blob_len, g)
                              /\ in_m_offset' = data + blob_len
                              /\ copied' = TRUE
                              /\ UNCHANGED in_m_ok
                         ELSE /\ Returned("blob", blob, sub)
                              /\ in_m_offset' = data
                              /\ copied' = FALSE
                              /\ UNCHANGED <<in_m_ok, blob>>

(* ------------------------------------------------------------------ *)
(* Sockets: the handle, the filesystem and the server                  *)
(* ------------------------------------------------------------------ *)

\* the two server objects; both are given the same endpoint path
Srv == {"s1", "s2"}

\* the builds: src/source/ipc.cpp signals with exceptions, part_000 with
\* the flag alone
Builds == {"ipc.cpp", "part_000"}

\* the steps of the server's setup, in the order of the source
Order == <<"socket", "set_non_blocking_mode", "bind", "listen">>

\* a socket object before its constructor body runs: socket(INVALID_SOCKET),
\* m_ok from init_socket_api()
NewHandle ==
    [pc |-> "idle", m_socket |-> "INVALID_SOCKET", m_ok |-> TRUE,
     released |-> 0, closes |-> 0]

\* unix_server_socket before its constructor body runs
NewServer ==
    NewHandle @@
    [steps |-> <<>>, made |-> FALSE, early |-> FALSE, backlog |-> 0,
     up_at |-> 0 - 1]

\* the descriptor released whatever m_socket holds
SocketCloseUnguarded(h) ==
    [h EXCEPT !.m_socket = "INVALID_SOCKET", !.m_ok = FALSE,
              !.released = @ + 1]

\* socket::close(): h is the object, the value the object after the call
SocketClose(h) ==
    IF h.m_socket /= "INVALID_SOCKET"
    THEN [h EXCEPT !.m_socket = "INVALID_SOCKET", !.m_ok = FALSE,
                   !.released = @ + 1]
    ELSE h

\* m_link.empty()
LinkEmpty == path_len = 0

\* strcpy(serv_addr.sun_path, m_link.c_str()) writes strlen + 1 bytes: more
\* than sun_path holds
StrCpyOverruns == path_len + 1 > SunPathSize

\* strncpy(serv_addr.sun_path, path, sizeof(serv_addr.sun_path)) copies the
\* first sizeof bytes and appends no NUL when the path has that many
StrNCpyCuts == path_len >= SunPathSize

\* the file at the path after unlink(m_link.c_str())
Unlinked == IF LinkEmpty THEN fs ELSE "absent"

\* unlink by server s removes a file s did not create
Steals(s) == ~LinkEmpty /\ fs \notin {"absent", s}

\* the server is bound and listening on a live descriptor
Listening(s) == srv[s].pc = "up" /\ srv[s].m_socket = "fd"

\* a failed step of the server's setup.  ipc.cpp: fail_status sets m_ok
\* false and throws; the constructor is left, the socket base object is
\* destroyed and closes the descriptor, no member of unix_server_socket
\* runs.  part_000: m_ok = false; return; the object lives on.
SrvFailed(h) ==
    IF build = "ipc.cpp"
    THEN [SocketClose([h EXCEPT !.m_ok = FailStatus(h.m_ok)])
            EXCEPT !.pc = "gone"]
    ELSE [h EXCEPT !.m_ok = FALSE, !.pc = "failed"]

\* what a server step leaves unchanged besides srv
SrvFrame ==
    /\ UNCHANGED <<build, path_len, cli, cut>>
    /\ UNCHANGED vars

\* h with one more step of the setup recorded
Stepped(h, call, r) ==
    [h EXCEPT !.steps = Append(@, [call |-> call, ok |-> r])]

\* m_socket = ::socket(AF_UNIX, SOCK_STREAM, 0), and the strcpy into
\* serv_addr.sun_path when it succeeded; r: the call succeeds
SrvSocket(s, r) ==
    /\ srv[s].pc = "idle"
    /\ srv[s].m_ok
    /\ LET h == Stepped(srv[s], "socket", r)
       IN  IF r
           THEN /\ srv' = [srv EXCEPT ![s] =
                            [h EXCEPT !.m_socket = "fd",
                                      !.pc = "set_non_blocking_mode"]]
                /\ overran' = (overran \/ StrCpyOverruns)
           ELSE /\ srv' = [srv EXCEPT ![s] = SrvFailed(h)]
                /\ UNCHANGED overran
    /\ UNCHANGED <<fs, stolen>>
    /\ SrvFrame

\* the result of set_non_blocking_mode is dropped
NonBlockingIgnored(r) == FALSE

\* !set_non_blocking_mode(m_socket)
NonBlockingFailed(r) == ~r

\* set_non_blocking_mode(m_socket); r: fcntl succeeds
SrvNonBlocking(s, r) ==
    /\ srv[s].pc = "set_non_blocking_mode"
    /\ LET h == Stepped(srv[s], "set_non_blocking_mode", r)
       IN  srv' = [srv EXCEPT ![s] =
                    IF NonBlockingFailed(r) THEN SrvFailed(h)
                    ELSE [h EXCEPT !.pc = "bind"]]
    /\ UNCHANGED <<fs, overran, stolen>>
    /\ SrvFrame

\* bind succeeds: the environment lets it (r) and no file is at the path
\* (an empty path names no file)
BindOk(r) == r /\ (LinkEmpty \/ fs = "absent")

\* bind(m_socket, &serv_addr, ...): creates the file at the path
SrvBind(s, r) ==
    /\ srv[s].pc = "bind"
    /\ LET ok == BindOk(r)
           h == Stepped(srv[s], "bind", ok)
       IN  IF ok
           THEN /\ srv' = [srv EXCEPT ![s] =
                            [h EXCEPT !.pc = "listen", !.made = ~LinkEmpty]]
                /\ fs' = IF LinkEmpty THEN fs ELSE s
           ELSE /\ srv' = [srv EXCEPT ![s] = SrvFailed(h)]
                /\ UNCHANGED fs
    /\ UNCHANGED <<overran, stolen>>
    /\ SrvFrame

\* listen(m_socket, 100); r: the call succeeds.  up_at: how many backoff
\* sleeps the client had finished by then
SrvListen(s, r) ==
    /\ srv[s].pc = "listen"
    /\ LET h == [Stepped(srv[s], "listen", r) EXCEPT !.backlog = Backlog]
       IN  srv' = [srv EXCEPT ![s] =
                    IF r THEN [h EXCEPT !.pc = "up", !.up_at = cli.attempt]
                    ELSE SrvFailed(h)]
    /\ UNCHANGED <<fs, overran, stolen>>
    /\ SrvFrame

\* unix_server_socket::close() of ipc.cpp run on object h of server s:
\* super::close(), then unlink unless m_link is empty.  early: unlink ran
\* while the descriptor was still held
ServerClose(s, h) ==
    LET closed == SocketClose(h)
    IN  /\ srv' = [srv EXCEPT ![s] =
                    [closed EXCEPT !.early =
                        @ \/ (~LinkEmpty /\ closed.m_socket = "fd")]]
        /\ fs' = Unlinked
        /\ stolen' = (stolen \/ Steals(s))

\* an explicit close() on a living server object.  ipc.cpp: the override
\* above.  part_000 defines no override: socket::close() alone
SrvClose(s) ==
    /\ srv[s].pc \in {"up", "failed"}
    /\ srv[s].closes < MaxCloses
    /\ LET h == [srv[s] EXCEPT !.closes = @ + 1]
       IN  IF build = "ipc.cpp"
           THEN ServerClose(s, h)
           ELSE /\ srv' = [srv EXCEPT ![s] = SocketClose(h)]
                /\ UNCHANGED <<fs, stolen>>
    /\ UNCHANGED overran
    /\ SrvFrame

\* ~unix_server_socket() of part_000: close(); unlink(m_link.c_str())
DestroyP0(s) ==
    LET closed == SocketClose(srv[s])
    IN  /\ srv' = [srv EXCEPT ![s] =
                    [closed EXCEPT !.pc = "gone", !.early =
                        @ \/ (~LinkEmpty /\ closed.m_socket = "fd")]]
        /\ fs' = Unlinked
        /\ stolen' = (stolen \/ Steals(s))

\* the destructor of a constructed server of ipc.cpp: close()
DestroyIpc(s) == ServerClose(s, [srv[s] EXCEPT !.pc = "gone"])

\* the destructor of a living server object
SrvDestroy(s) ==
    /\ srv[s].pc \in {"up", "failed"}
    /\ IF build = "ipc.cpp" THEN DestroyIpc(s) ELSE DestroyP0(s)
    /\ UNCHANGED overran
    /\ SrvFrame

(* ------------------------------------------------------------------ *)
(* Sockets: the client                                                 *)
(* ------------------------------------------------------------------ *)

\* unix_client_socket before its constructor body runs.  connects: calls
\* of connect so far; transients: those that failed with an error of the
\* transient set; fatal_at: the call that met the first error outside it;
\* seen: what is_socket_exists found; fault: the environment failed a call
\* on its own account
NewClient ==
    NewHandle @@
    [attempt |-> 0, connects |-> 0, transients |-> 0, fatal_at |-> 0,
     seen |-> "unchecked", outcome |-> "none", fault |-> FALSE]

\* the errors the environment raises on its own account: a full backlog,
\* a connect in progress, a permission denied
EnvErrs == {"EAGAIN", "EINPROGRESS", "EACCES"}

\* the errors the code retries after
TransientSet == {"EAGAIN", "ECONNREFUSED", "EINPROGRESS"}

\* err_code == EAGAIN || err_code == ECONNREFUSED || err_code == EINPROGRESS
Transient(err) == err \in TransientSet

\* the probe answering yes whatever the filesystem holds
SocketExistsAlways == TRUE

\* is_socket_exists(path): std::filesystem::exists
SocketExists == ~LinkEmpty /\ fs /= "absent"

\* the loop running one attempt too many
LoopContinuesInclusive(attempt) == attempt <= max_attempts_count

\* attempt < max_attempts_count, the first half of the loop condition
LoopContinues(attempt) == attempt < max_attempts_count

\* what connect returns: e when the environment raises e, otherwise what
\* the path leads to
ConnectResult(e) ==
    IF e /= "none" THEN e
    ELSE IF LinkEmpty \/ fs = "absent" THEN "ENOENT"
    ELSE IF fs \in Srv /\ Listening(fs) THEN "ok"
    ELSE "ECONNREFUSED"

\* the constructor left on a failure.  ipc.cpp: fail_status sets m_ok false
\* and throws, the socket base object is destroyed and closes the
\* descriptor.  part_000: m_ok = false; return
CliFailed(h, why) ==
    IF build = "ipc.cpp"
    THEN [SocketClose([h EXCEPT !.m_ok = FailStatus(h.m_ok)])
            EXCEPT !.pc = "done", !.outcome = why]
    ELSE [h EXCEPT !.m_ok = FALSE, !.pc = "done", !.outcome = why]

\* the constructor left on an error outside the transient set.  ipc.cpp:
\* fail_status.  part_000: a bare return
CliFatal(h) ==
    IF build = "ipc.cpp"
    THEN CliFailed(h, "non_transient")
    ELSE [h EXCEPT !.pc = "done", !.outcome = "non_transient"]

\* what a client step leaves unchanged besides cli
CliFrame ==
    /\ UNCHANGED <<build, path_len, fs, srv, overran, stolen>>
    /\ UNCHANGED vars

\* m_socket = ::socket(AF_UNIX, SOCK_STREAM, 0); r: the call succeeds
CliSocket(r) ==
    /\ cli.pc = "idle"
    /\ cli.m_ok
    /\ cli' = IF r
              THEN [cli EXCEPT !.m_socket = "fd", !.pc = "exists"]
              ELSE CliFailed([cli EXCEPT !.fault = TRUE], "alloc")
    /\ UNCHANGED cut
    /\ CliFrame

\* is_socket_exists(path), and the strncpy into serv_addr.sun_path when the
\* path exists
CliExists ==
    /\ cli.pc = "exists"
    /\ LET h == [cli EXCEPT !.seen = IF LinkEmpty THEN "absent" ELSE fs]
       IN  IF SocketExists
           THEN /\ cli' = [h EXCEPT !.pc = "connect"]
                /\ cut' = (cut \/ StrNCpyCuts)
           ELSE /\ cli' = CliFailed(h, "not_found")
                /\ UNCHANGED cut
    /\ CliFrame

\* one evaluation of the loop condition with what follows it: the connect
\* call, then the loop body (sleep and ++attempt, or the failure), or the
\* code after the loop.  e: the error the environment raises, or "none"
CliConnect(e) ==
    /\ cli.pc = "connect"
    /\ IF ~LoopContinues(cli.attempt)
       THEN /\ e = "none"
            /\ cli' = IF cli.attempt = max_attempts_count
                      THEN CliFailed(cli, "exhausted")
                      ELSE [cli EXCEPT !.pc = "set_non_blocking_mode"]
       ELSE LET err == ConnectResult(e)
                h == [cli EXCEPT !.connects = @ + 1,
                                 !.transients =
                                    IF err \in TransientSet THEN @ + 1 ELSE @,
                                 !.fault = @ \/ (e /= "none"),
                                 !.fatal_at =
                                    IF @ = 0 /\ err \notin TransientSet \cup {"ok"}
                                    THEN cli.connects + 1 ELSE @]
            IN  cli' = IF err = "ok"
                       THEN [h EXCEPT !.pc = "set_non_blocking_mode"]
                       ELSE IF Transient(err)
                       THEN [h EXCEPT !.attempt = @ + 1]
                       ELSE CliFatal(h)
    /\ UNCHANGED cut
    /\ CliFrame

\* set_non_blocking_mode(m_socket) after the loop; r: fcntl succeeds
CliNonBlocking(r) ==
    /\ cli.pc = "set_non_blocking_mode"
    /\ cli' = IF r
              THEN [cli EXCEPT !.pc = "done", !.outcome = "connected"]
              ELSE CliFailed([cli EXCEPT !.fault = TRUE], "non_blocking")
    /\ UNCHANGED cut
    /\ CliFrame

\* an explicit close() on a living client object: socket::close()
CliClose ==
    /\ cli.pc = "done"
    /\ build = "part_000" \/ cli.outcome = "connected"
    /\ cli.closes < MaxCloses
    /\ cli' = SocketClose([cli EXCEPT !.closes = @ + 1])
    /\ UNCHANGED cut
    /\ CliFrame

\* the state of the sockets before any constructor runs: one path for
\* every object, and at that path nothing or a file left by another process
SockStart ==
    /\ build \in Builds
    /\ path_len \in 0..MaxPathLen
    /\ fs \in {"absent", "other"}
    /\ srv = [s \in Srv |-> NewServer]
    /\ cli = NewClient
    /\ overran = FALSE
    /\ cut = FALSE
    /\ stolen = FALSE

\* no socket is ever built: the state of the sockets in the specifications
\* of the messages
SockIdle ==
    /\ build = "ipc.cpp"
    /\ path_len = 0
    /\ fs = "absent"
    /\ srv = [s \in Srv |-> NewServer]
    /\ cli = NewClient
    /\ overran = FALSE
    /\ cut = FALSE
    /\ stolen = FALSE

(* ------------------------------------------------------------------ *)
(* Specification                                                       *)
(* ------------------------------------------------------------------ *)

\* out_message(): an empty message, the header holding 0
Init ==
    /\ useTags \in BOOLEAN
    /\ max_size = MaxCapacity
    /\ out_m_buffer = EncodeLen(0)
    /\ out_m_ok = TRUE
    /\ out_last = "none"
    /\ fields = <<>>
    /\ phase = "write"
    /\ delivery = "none"
    /\ in_m_buffer = <<>>
    /\ in_m_offset = 0
    /\ in_m_ok = TRUE
    /\ in_last = "none"
    /\ in_op = "none"
    /\ arg = <<>>
    /\ blob = <<>>
    /\ in_count = 0
    /\ in_sync = TRUE
    /\ in_same = TRUE
    /\ oob = FALSE
    /\ copied = FALSE
    /\ SockIdle

Next ==
    \/ \E s \in Strings : AppendString(s)
    \/ \E b \in Blobs : AppendBlob(b)
    \/ DeliverExact
    \/ \E k \in 0..Len(out_m_buffer) : DeliverTruncated(k)
    \/ \E i \in 1..Len(out_m_buffer), v \in CorruptVals :
            DeliverCorrupted(i, v)
    \/ \E g \in OOBVals : ReadString(g)
    \/ \E g \in OOBVals : ReadBlob(g)

Spec == Init /\ [][Next]_vars

\* the writer of part_000 alone
NextP0 ==
    \/ \E s \in Strings : AppendStringP0(s)
    \/ \E b \in Blobs : AppendBlobP0(b)
    \/ DeliverExact

SpecP0 == Init /\ [][NextP0]_vars

\* what the caller's vector may hold when it is handed to operator>>
Dests == {<<>>, Fill(1, 255)}

\* the caller fills the vector it hands to the next operator>>
Assign(d) ==
    /\ phase = "read"
    /\ blob /= d
    /\ blob' = d
    /\ UNCHANGED <<useTags, max_size, phase, delivery, in_m_buffer,
                   in_m_offset, in_m_ok, in_last, in_op, arg, in_count,
                   in_sync, in_same, oob, copied>>
    /\ UNCHANGED outVars
    /\ UNCHANGED sockVars

\* the messages, the reader's destination holding anything before a read
NextDest ==
    \/ \E s \in Strings : AppendString(s)
    \/ \E b \in Blobs : AppendBlob(b)
    \/ DeliverExact
    \/ \E i \in 1..Len(out_m_buffer), v \in CorruptVals :
            DeliverCorrupted(i, v)
    \/ \E d \in Dests : Assign(d)
    \/ \E g \in OOBVals : ReadString(g)
    \/ \E g \in OOBVals : ReadBlob(g)

SpecDest == Init /\ [][NextDest]_vars

\* the sockets: no message is written or read
SockInit ==
    /\ useTags = FALSE
    /\ max_size = MaxCapacity
    /\ out_m_buffer = EncodeLen(0)
    /\ out_m_ok = TRUE
    /\ out_last = "none"
    /\ fields = <<>>
    /\ phase = "write"
    /\ delivery = "none"
    /\ in_m_buffer = <<>>
    /\ in_m_offset = 0
    /\ in_m_ok = TRUE
    /\ in_last = "none"
    /\ in_op = "none"
    /\ arg = <<>>
    /\ blob = <<>>
    /\ in_count = 0
    /\ in_sync = TRUE
    /\ in_same = TRUE
    /\ oob = FALSE
    /\ copied = FALSE
    /\ SockStart

\* two servers on one path, no client
SrvNext ==
    \/ \E s \in Srv, r \in BOOLEAN : SrvSocket(s, r)
    \/ \E s \in Srv, r \in BOOLEAN : SrvNonBlocking(s, r)
    \/ \E s \in Srv, r \in BOOLEAN : SrvBind(s, r)
    \/ \E s \in Srv, r \in BOOLEAN : SrvListen(s, r)
    \/ \E s \in Srv : SrvClose(s)
    \/ \E s \in Srv : SrvDestroy(s)

SrvSpec == SockInit /\ [][SrvNext]_sockVars

\* one client and one server started side by side on one path
CliNext ==
    \/ \E r \in BOOLEAN : SrvSocket("s1", r)
    \/ \E r \in BOOLEAN : SrvNonBlocking("s1", r)
    \/ \E r \in BOOLEAN : SrvBind("s1", r)
    \/ \E r \in BOOLEAN : SrvListen("s1", r)
    \/ SrvClose("s1")
    \/ SrvDestroy("s1")
    \/ \E r \in BOOLEAN : CliSocket(r)
    \/ CliExists
    \/ \E e \in EnvErrs \cup {"none"} : CliConnect(e)
    \/ \E r \in BOOLEAN : CliNonBlocking(r)
    \/ CliClose

CliSpec == SockInit /\ [][CliNext]_sockVars

(* ------------------------------------------------------------------ *)
(* Properties                                                          *)
(* ------------------------------------------------------------------ *)

\* the bytes the writer's buffer holds after the header
Committed == Len(out_m_buffer) - LenSize

\* the reads so far asked, in order, for the types of the committed fields
\* of a buffer that arrived whole
InOrder == phase = "read" /\ delivery = "exact" /\ in_sync

\* the ways a read fails on its own (not on an earlier failure)
ReadFailures == {"too_short", "type_mismatch", "malformed"}

\* C1: round trip in order.  Fields that fit the capacity, written by one
\* writer and read back in the same order with the same types, come back
\* unchanged, and the reader's ok flag is true after every read.
C1_RoundTrip ==
    (InOrder /\ Committed <= max_size)
        => (in_m_ok /\ in_same /\ in_last \in {"none", "ok"})

\* C2: the header length equals the number of bytes appended after the
\* header so far.
C2_LengthIsCommitted == Used = Committed

\* C3: the bytes held after the header never exceed max_size.
C3_WithinCapacity == Committed <= max_size

\* C4: an append rejected for overflow sets ok to false and leaves buffer
\* and header as they were, and a reader over that buffer still extracts
\* every field committed before.
C4_OverflowKeepsFields ==
    [][ /\ (out_last' = "overflow" /\ out_m_ok)
            => (~out_m_ok' /\ out_m_buffer' = out_m_buffer)
        /\ (InOrder' /\ out_last' \in {"overflow", "bad_state"})
            => (in_m_ok' /\ in_same' /\ in_last' \in {"none", "ok"}) ]_vars

\* C5: over a writer's buffer cut short, no read touches a byte at or past
\* the end of what arrived, and a read returns only bytes that arrived.
C5_TruncatedSafe ==
    delivery = "truncated"
        => (~oob /\ (in_last = "ok" => in_m_offset <= Len(in_m_buffer)))

\* C6: a blob read runs its copy only when cursor + blob_len is within the
\* declared length; a blob read that fails latches the reader and leaves
\* the destination as it was.
C6_BlobCopyInBounds ==
    [][ in_op' = "blob"
            => /\ copied' => (in_last' = "ok" /\ in_m_offset' <= Size')
               /\ in_last' /= "ok" => (blob' = blob /\ ~copied' /\ ~in_m_ok') ]_vars

\* C6 witness: on a buffer with a changed byte, the first blob read got past
\* the first check, read blob_len, and was stopped by the second check
C6_Witness ==
    /\ delivery = "corrupted"
    /\ in_op = "blob"
    /\ in_last = "too_short"
    /\ in_count = 0
    /\ in_m_offset > LenSize
    /\ blob = <<>>

C8_WriterLatch ==
    [][ ~out_m_ok
            => /\ out_m_buffer' = out_m_buffer
               /\ ~out_m_ok'
               /\ fields' = fields
               /\ phase' = "write" => out_last' \in {"overflow", "bad_state"} ]_vars

\* C9: a failing read sets ok to false; once ok is false every further
\* read fails, the cursor stays, and ok stays false.
C9_ReaderLatch ==
    [][ /\ in_last' \in ReadFailures => ~in_m_ok'
        /\ (phase = "read" /\ ~in_m_ok)
            => /\ ~in_m_ok'
               /\ in_m_offset' = in_m_offset
               /\ in_last' = "bad_state"
               /\ in_count' = in_count
               /\ arg' = arg /\ blob' = blob ]_vars

\* C9 witness: a read failed after the cursor had moved, and a later read
\* found the flag set
C9_Witness ==
    /\ phase = "read"
    /\ ~in_m_ok
    /\ in_last = "bad_state"
    /\ in_m_offset > LenSize

\* the tag the read that just ran expects
ExpectedTag(op) == IF op = "str" THEN TagStr ELSE TagBlob

\* the declared length covers the least a read of kind op needs
Covers(op) ==
    IF op = "str" THEN ~StrTooShort(Size, in_m_offset)
    ELSE ~BlobTooShort(Size, in_m_offset)

NoNulIn(lo, hi) ==
    \A p \in lo..(hi - 1) : p < Len(in_m_buffer) => in_m_buffer[p + 1] /= 0

C12_RetryBound ==
    /\ cli.connects <= max_attempts_count
    /\ (cli.pc = "done" /\ cli.connects > 0 /\ cli.transients = cli.connects)
        => /\ cli.connects = max_attempts_count
           /\ cli.outcome = "exhausted"
           /\ ~cli.m_ok

\* C12 witness: ten calls met a file nobody listens on, no error raised by
\* the environment, and the construction ended exhausted
C12_Witness ==
    /\ cli.outcome = "exhausted"
    /\ cli.connects = max_attempts_count
    /\ ~cli.fault

\* C13: after a connect call failed with an error outside the transient
\* set, no further connect call is made and the construction has ended
\* failed (ok false), not connected.
C13_NonTransientFails ==
    cli.fatal_at > 0
        => /\ cli.connects = cli.fatal_at
           /\ cli.pc = "done"
           /\ cli.outcome /= "connected"
           /\ ~cli.m_ok

\* C14: when the client's check finds no file at the path, the construction
\* ends failed (not found, ok false) and connect is never called.
C14_MissingEndpoint ==
    cli.seen = "absent"
        => /\ cli.pc = "done"
           /\ cli.outcome = "not_found"
           /\ ~cli.m_ok
           /\ cli.connects = 0

\* C14 witness: the check found nothing, the construction ended, and the
\* server bound the path afterwards
C14_Witness == cli.seen = "absent" /\ cli.outcome = "not_found" /\ fs = "s1"

\* C15: a client started beside a server that is listening before the
\* client's attempts run out ends connected, however their steps interleave
\* (no call failed by the environment, a path that fits).
C15_StartupRace ==
    ( /\ cli.pc = "done" /\ ~cli.fault
      /\ ~LinkEmpty /\ ~StrNCpyCuts
      /\ Listening("s1") /\ fs = "s1"
      /\ srv["s1"].up_at < max_attempts_count )
        => cli.outcome = "connected"

\* every step but the last of a setup succeeded
AllButLastOk(steps) == \A i \in 1..(Len(steps) - 1) : steps[i].ok

\* C16: a server's setup runs socket, set-non-blocking, bind, listen(100) in
\* that order; after a failed step no later step runs and the server is
\* failed; a server is bound and listening only after all four succeeded.
C16_SetupOrder ==
    \A s \in Srv :
        LET h == srv[s]
            n == Len(h.steps)
        IN  /\ n <= Len(Order)
            /\ \A i \in 1..n : h.steps[i].call = Order[i]
            /\ AllButLastOk(h.steps)
            /\ (n > 0 /\ ~h.steps[n].ok)
                => (~h.m_ok /\ h.pc \in {"failed", "gone"})
            /\ h.pc = "up"
                => (n = Len(Order) /\ h.steps[n].ok /\ h.backlog = Backlog)

\* C16 witness: one server is up and the other's setup stopped at bind
C16_Witness ==
    /\ srv["s1"].pc = "up"
    /\ Len(srv["s2"].steps) = 3
    /\ ~srv["s2"].steps[3].ok
    /\ srv["s2"].pc \in {"failed", "gone"}

\* C17: once a server whose bind created the file is torn down, on every
\* path, the file is gone, and unlink never ran while the descriptor was
\* still held.
C17_ServerCleanup ==
    \A s \in Srv :
        (srv[s].pc = "gone" /\ srv[s].made) => (fs /= s /\ ~srv[s].early)

\* a close() call on the object: an explicit one, or the destructor's
CloseCall(h, k) ==
    \/ k.closes = h.closes + 1
    \/ h.pc \in {"up", "failed"} /\ k.pc = "gone"

\* C18 for one handle, h before the step and k after it
CloseIdempotent(h, k) ==
    /\ k.released <= 1
    /\ (CloseCall(h, k) /\ h.m_socket = "fd")
        => /\ k.m_socket = "INVALID_SOCKET"
           /\ ~k.m_ok
           /\ k.released = h.released + 1
    /\ (CloseCall(h, k) /\ h.m_socket = "INVALID_SOCKET")
        => /\ k.m_socket = h.m_socket
           /\ k.m_ok = h.m_ok
           /\ k.released = h.released

\* C18: close() is idempotent: the descriptor of a handle is released at
\* most once, the first close of a live handle leaves the descriptor
\* invalid and ok false, and every later close changes nothing of the
\* handle.
C18_CloseIdempotent ==
    [][ /\ CloseIdempotent(srv["s1"], srv'["s1"])
        /\ CloseIdempotent(cli, cli') ]_sockVars

\* C18 witness: a server was closed and then destroyed, the descriptor
\* released once
C18_Witness ==
    /\ srv["s1"].pc = "gone"
    /\ srv["s1"].closes = 1
    /\ srv["s1"].released = 1

\* C19: with a path longer than sun_path no construction succeeds, and the
\* path is neither written past the end of sun_path nor cut short and left
\* without its NUL.
C19_LongPathRejected ==
    path_len > SunPathSize
        => /\ ~overran
           /\ ~cut
           /\ srv["s1"].pc /= "up"
           /\ cli.outcome /= "connected"

\* C20: no server unlinks a file it did not create by a successful bind.
C20_OwnFileOnly == ~stolen

\* C21: a client whose construction has finished has ok true only when it
\* ended connected: some connect call succeeded and set-non-blocking
\* succeeded after it; every other outcome leaves ok false.
C21_OkMeansConnected ==
    (cli.pc = "done" /\ cli.closes = 0)
        => /\ cli.m_ok
                => /\ cli.outcome = "connected"
                   /\ cli.connects = cli.transients + 1
                   /\ cli.fatal_at = 0
           /\ cli.outcome /= "connected" => ~cli.m_ok

\* the bytes of the vector between the blob's length sub-field, read at
\* cursor off, and the cursor to after the read
Decoded(off, to) == SubSeq(in_m_buffer, AfterTag(off) + LenSize + 1, to)

\* C22: a blob read that returns normally leaves the destination equal to
\* the decoded blob bytes, whatever the destination held before; a blob of
\* length zero leaves it empty.
C22_BlobDestination ==
    [][ ( /\ phase = "read" /\ in_op' = "blob" /\ in_last' = "ok"
          /\ in_count' = in_count + 1
          /\ in_m_offset' <= Len(in_m_buffer) )
            => blob' = Decoded(in_m_offset, in_m_offset') ]_vars

====
